---------------------------- MODULE Spec2Model ----------------------------
(***************************************************************************)
(* Golden-fixture generation pipeline of pdfplumber-rs.                    *)
(*                                                                         *)
(* Three generators are modelled:                                          *)
(*   "xval"     tests/fixtures/generate_cross_validation_golden.py         *)
(*   "fixtures" tests/fixtures/generate_golden.py                          *)
(*   "scripts"  scripts/generate_golden.py                                 *)
(*                                                                         *)
(* Python values are records tagged by the field t.  A float is held in    *)
(* fixed point: Flt(m) is the number m / 10^RawDecimals.                   *)
(***************************************************************************)
EXTENDS Integers, Naturals, Sequences, FiniteSets, TLC

(***************************************************************************)
(* Bounds of the model.                                                    *)
(***************************************************************************)
RawDecimals == 5
MaxPages == 2

(***************************************************************************)
(* Python values.                                                          *)
(***************************************************************************)
None == [t |-> "None"]
Flt(m) == [t |-> "float", m |-> m]
IntV(n) == [t |-> "int", n |-> n]
Str(s) == [t |-> "str", s |-> s]
Bool(b) == [t |-> "bool", b |-> b]
Raise(e) == [t |-> "raise", exc |-> e]

IsRaise(v) == v.t = "raise"

RECURSIVE Pow10(_)
Pow10(k) == IF k = 0 THEN 1 ELSE 10 * Pow10(k - 1)

\* one unit (1.0) in fixed point
Unit == Pow10(RawDecimals)

\* dict.get(k) / dict.get(k, default) / dict[k]
DictGet(d, k) == IF k \in DOMAIN d THEN d[k] ELSE None
DictGetDefault(d, k, default) == IF k \in DOMAIN d THEN d[k] ELSE default
DictIndex(d, k) == IF k \in DOMAIN d THEN d[k] ELSE Raise("KeyError")

\* float(v)
PyFloat(v) ==
  CASE v.t = "float" -> v
    [] v.t = "int" -> Flt(v.n * Unit)
    [] v.t = "bool" -> Flt(IF v.b THEN Unit ELSE 0)
    [] v.t = "raise" -> v
    [] OTHER -> Raise("TypeError")

\* truthiness of a value, as `x or y` and bool(x) use it
Truthy(v) ==
  CASE v.t = "None" -> FALSE
    [] v.t = "float" -> v.m # 0
    [] v.t = "int" -> v.n # 0
    [] v.t = "bool" -> v.b
    [] v.t = "str" -> v.s # ""
    [] OTHER -> TRUE

\* x or y
PyOr(x, y) == IF IsRaise(x) THEN x ELSE IF Truthy(x) THEN x ELSE y

\* bool(x)
PyBool(x) == IF IsRaise(x) THEN x ELSE Bool(Truthy(x))

(***************************************************************************)
(* 4.1 Geometry Normalizer.                                                *)
(***************************************************************************)
COORD_DECIMALS == 4

\* the spacing, in fixed point, of the numbers with ndigits decimals
Grid(ndigits) == Pow10(RawDecimals - ndigits)

\* round(x, ndigits) of a float: the nearest multiple of the grid, a tie
\* going to the even multiple
\* mutant: the digits beyond ndigits are cut off instead of rounded
RoundFloatTruncating(m, ndigits) == (m \div Grid(ndigits)) * Grid(ndigits)

RoundFloat(m, ndigits) ==
  LET g == Grid(ndigits)
      q == m \div g
      r == m % g
  IN  IF 2 * r < g THEN q * g
      ELSE IF 2 * r > g THEN (q + 1) * g
      ELSE IF q % 2 = 0 THEN q * g ELSE (q + 1) * g

\* the builtin round(v, ndigits): an int is returned unchanged (ndigits >= 0),
\* None and str raise TypeError
PyRound(v, ndigits) ==
  CASE v.t = "float" -> Flt(RoundFloat(v.m, ndigits))
    [] v.t = "int" -> v
    [] v.t = "bool" -> IntV(IF v.b THEN 1 ELSE 0)
    [] v.t = "raise" -> v
    [] OTHER -> Raise("TypeError")

round_coord(v) ==
  IF v = None THEN None
  ELSE PyRound(PyFloat(v), COORD_DECIMALS)

(***************************************************************************)
(* Containers.  A dict display {k: e, ...} evaluates its values in the     *)
(* order keys lists them; the first one that raises aborts the display.    *)
(* A comprehension [f(x) for x in xs] likewise stops at the first raise.   *)
(***************************************************************************)
Dict(d) == [t |-> "dict", d |-> d]
List(items) == [t |-> "list", items |-> items]

RECURSIVE FirstRaise(_, _)
FirstRaise(keys, d) ==
  IF keys = <<>> THEN None
  ELSE IF IsRaise(d[Head(keys)]) THEN d[Head(keys)]
  ELSE FirstRaise(Tail(keys), d)

MkDict(keys, d) ==
  LET r == FirstRaise(keys, d) IN IF r = None THEN Dict(d) ELSE r

MkList(items) ==
  LET r == FirstRaise([i \in 1..Len(items) |-> i], items)
  IN  IF r = None THEN List(items) ELSE r

\* d.get(k, default) with the default expression evaluated first, as a call does
GetOr(d, k, default) ==
  IF IsRaise(default) THEN default ELSE DictGetDefault(d, k, default)

(***************************************************************************)
(* 4.2 Object Projector, scripts/generate_golden.py.                       *)
(***************************************************************************)
extract_char(c) ==
  MkDict(<<"text", "x0", "top", "x1", "bottom", "fontname", "size", "doctop", "upright">>,
    [text |-> GetOr(c, "text", Str("")),
     x0 |-> round_coord(DictGet(c, "x0")),
     top |-> round_coord(DictGet(c, "top")),
     x1 |-> round_coord(DictGet(c, "x1")),
     bottom |-> round_coord(DictGet(c, "bottom")),
     fontname |-> GetOr(c, "fontname", Str("")),
     size |-> round_coord(DictGet(c, "size")),
     doctop |-> round_coord(DictGet(c, "doctop")),
     upright |-> GetOr(c, "upright", Bool(TRUE))])

extract_word(w) ==
  MkDict(<<"text", "x0", "top", "x1", "bottom", "doctop">>,
    [text |-> GetOr(w, "text", Str("")),
     x0 |-> round_coord(DictGet(w, "x0")),
     top |-> round_coord(DictGet(w, "top")),
     x1 |-> round_coord(DictGet(w, "x1")),
     bottom |-> round_coord(DictGet(w, "bottom")),
     doctop |-> round_coord(DictGet(w, "doctop"))])

extract_line(obj) ==
  MkDict(<<"x0", "top", "x1", "bottom", "linewidth">>,
    [x0 |-> round_coord(DictGet(obj, "x0")),
     top |-> round_coord(DictGet(obj, "top")),
     x1 |-> round_coord(DictGet(obj, "x1")),
     bottom |-> round_coord(DictGet(obj, "bottom")),
     linewidth |-> round_coord(GetOr(obj, "linewidth", DictGet(obj, "line_width")))])

extract_rect(obj) ==
  MkDict(<<"x0", "top", "x1", "bottom", "linewidth", "stroke", "fill">>,
    [x0 |-> round_coord(DictGet(obj, "x0")),
     top |-> round_coord(DictGet(obj, "top")),
     x1 |-> round_coord(DictGet(obj, "x1")),
     bottom |-> round_coord(DictGet(obj, "bottom")),
     linewidth |-> round_coord(GetOr(obj, "linewidth", DictGet(obj, "line_width"))),
     stroke |-> GetOr(obj, "stroke", Bool(DictGet(obj, "stroking_color") # None)),
     fill |-> GetOr(obj, "fill", Bool(DictGet(obj, "non_stroking_color") # None))])

\* [cell if cell is not None else "" for cell in row]
EmptyIfNone(row) == [i \in 1..Len(row) |-> IF row[i] # None THEN row[i] ELSE Str("")]

\* table.extract() is a call into the extractor and may raise; the unused
\* loop over table.cells (lines 86-88) changes nothing
extract_table(table) ==
  IF IsRaise(table.extract) THEN table.extract
  ELSE MkDict(<<"bbox", "rows">>,
    [bbox |-> MkDict(<<"x0", "top", "x1", "bottom">>,
                [x0 |-> round_coord(table.bbox[1]),
                 top |-> round_coord(table.bbox[2]),
                 x1 |-> round_coord(table.bbox[3]),
                 bottom |-> round_coord(table.bbox[4])]),
     rows |-> List([i \in 1..Len(table.extract.items) |->
                      List(EmptyIfNone(table.extract.items[i]))])])

\* [f(x) for x in xs]: xs is the result of a call that may itself have
\* raised, ys the sequence of the f(x)
Comprehension(xs, ys) == IF IsRaise(xs) THEN xs ELSE MkList(ys)

(***************************************************************************)
(* 4.2 Object Projector, tests/fixtures/generate_cross_validation_golden.py*)
(* (the projections are written inline in extract_page_data).              *)
(***************************************************************************)
XvChar(c) ==
  MkDict(<<"text", "x0", "top", "x1", "bottom", "fontname", "size", "doctop", "upright">>,
    [text |-> DictIndex(c, "text"),
     x0 |-> PyRound(DictIndex(c, "x0"), 4),
     top |-> PyRound(DictIndex(c, "top"), 4),
     x1 |-> PyRound(DictIndex(c, "x1"), 4),
     bottom |-> PyRound(DictIndex(c, "bottom"), 4),
     fontname |-> GetOr(c, "fontname", Str("")),
     size |-> PyRound(GetOr(c, "size", Flt(0)), 4),
     doctop |-> PyRound(GetOr(c, "doctop", DictIndex(c, "top")), 4),
     upright |-> GetOr(c, "upright", Bool(TRUE))])

XvWord(w) ==
  MkDict(<<"text", "x0", "top", "x1", "bottom", "doctop">>,
    [text |-> DictIndex(w, "text"),
     x0 |-> PyRound(DictIndex(w, "x0"), 4),
     top |-> PyRound(DictIndex(w, "top"), 4),
     x1 |-> PyRound(DictIndex(w, "x1"), 4),
     bottom |-> PyRound(DictIndex(w, "bottom"), 4),
     doctop |-> PyRound(GetOr(w, "doctop", DictIndex(w, "top")), 4)])

XvLine(ln) ==
  MkDict(<<"x0", "top", "x1", "bottom", "linewidth">>,
    [x0 |-> PyRound(DictIndex(ln, "x0"), 4),
     top |-> PyRound(DictIndex(ln, "top"), 4),
     x1 |-> PyRound(DictIndex(ln, "x1"), 4),
     bottom |-> PyRound(DictIndex(ln, "bottom"), 4),
     linewidth |-> PyRound(PyOr(GetOr(ln, "linewidth", GetOr(ln, "lw", Flt(0))), Flt(0)), 4)])

XvRect(r) ==
  MkDict(<<"x0", "top", "x1", "bottom", "linewidth", "stroke", "fill">>,
    [x0 |-> PyRound(DictIndex(r, "x0"), 4),
     top |-> PyRound(DictIndex(r, "top"), 4),
     x1 |-> PyRound(DictIndex(r, "x1"), 4),
     bottom |-> PyRound(DictIndex(r, "bottom"), 4),
     linewidth |-> PyRound(PyOr(GetOr(r, "linewidth", GetOr(r, "lw", Flt(0))), Flt(0)), 4),
     stroke |-> PyBool(GetOr(r, "stroke", Bool(TRUE))),
     fill |-> PyBool(GetOr(r, "fill", Bool(FALSE)))])

XvTable(tb) ==
  MkDict(<<"bbox", "rows">>,
    [bbox |-> MkDict(<<"x0", "top", "x1", "bottom">>,
                [x0 |-> PyRound(tb.bbox[1], 4),
                 top |-> PyRound(tb.bbox[2], 4),
                 x1 |-> PyRound(tb.bbox[3], 4),
                 bottom |-> PyRound(tb.bbox[4], 4)]),
     rows |-> IF IsRaise(tb.extract) THEN tb.extract
              ELSE List([i \in 1..Len(tb.extract.items) |->
                           List(EmptyIfNone(tb.extract.items[i]))])])

(***************************************************************************)
(* 4.2 Object Projector, tests/fixtures/generate_golden.py (inline in      *)
(* extract_page_data): no doctop/upright, a flat bbox, cells kept as read. *)
(***************************************************************************)
FxChar(c) ==
  MkDict(<<"text", "x0", "top", "x1", "bottom", "fontname", "size">>,
    [text |-> DictIndex(c, "text"),
     x0 |-> PyRound(DictIndex(c, "x0"), 4),
     top |-> PyRound(DictIndex(c, "top"), 4),
     x1 |-> PyRound(DictIndex(c, "x1"), 4),
     bottom |-> PyRound(DictIndex(c, "bottom"), 4),
     fontname |-> GetOr(c, "fontname", Str("")),
     size |-> PyRound(GetOr(c, "size", Flt(0)), 4)])

FxWord(w) ==
  MkDict(<<"text", "x0", "top", "x1", "bottom">>,
    [text |-> DictIndex(w, "text"),
     x0 |-> PyRound(DictIndex(w, "x0"), 4),
     top |-> PyRound(DictIndex(w, "top"), 4),
     x1 |-> PyRound(DictIndex(w, "x1"), 4),
     bottom |-> PyRound(DictIndex(w, "bottom"), 4)])

\* [cell if cell is not None else None for cell in row]
NoneIfNone(row) == [i \in 1..Len(row) |-> IF row[i] # None THEN row[i] ELSE None]

FxTable(tb) ==
  MkDict(<<"bbox", "rows">>,
    [bbox |-> MkList([i \in 1..4 |-> PyRound(tb.bbox[i], 4)]),
     rows |-> IF IsRaise(tb.extract) THEN tb.extract
              ELSE List([i \in 1..Len(tb.extract.items) |->
                           List(NoneIfNone(tb.extract.items[i]))])])

(***************************************************************************)
(* 4.3 Page Assembler.  A page of the extractor is a record                *)
(*   page_number (1-based), width, height, chars, lines, rects (lists),    *)
(*   extract_words, extract_text, find_tables (the results of the calls,   *)
(*   Raise(..) when the call raises).                                      *)
(***************************************************************************)
PageKeys == <<"chars", "words", "text", "lines", "rects", "tables",
              "page_number", "width", "height">>

xv_extract_page_data(page) ==
  MkDict(PageKeys,
    [chars |-> Comprehension(page.chars,
        [k \in 1..Len(page.chars.items) |-> XvChar(page.chars.items[k])]),
     words |-> Comprehension(page.extract_words,
         [k \in 1..Len(page.extract_words.items) |-> XvWord(page.extract_words.items[k])]),
     text |-> PyOr(page.extract_text, Str("")),
     lines |-> Comprehension(page.lines,
         [k \in 1..Len(page.lines.items) |-> XvLine(page.lines.items[k])]),
     rects |-> Comprehension(page.rects,
         [k \in 1..Len(page.rects.items) |-> XvRect(page.rects.items[k])]),
     tables |-> Comprehension(page.find_tables,
         [k \in 1..Len(page.find_tables.items) |-> XvTable(page.find_tables.items[k])]),
     page_number |-> IntV(page.page_number - 1),
     width |-> PyRound(PyFloat(page.width), 4),
     height |-> PyRound(PyFloat(page.height), 4)])

fx_extract_page_data(page) ==
  MkDict(<<"chars", "words", "tables", "page_number", "width", "height">>,
    [chars |-> Comprehension(page.chars,
        [k \in 1..Len(page.chars.items) |-> FxChar(page.chars.items[k])]),
     words |-> Comprehension(page.extract_words,
         [k \in 1..Len(page.extract_words.items) |-> FxWord(page.extract_words.items[k])]),
     tables |-> Comprehension(page.find_tables,
         [k \in 1..Len(page.find_tables.items) |-> FxTable(page.find_tables.items[k])]),
     page_number |-> IntV(page.page_number),
     width |-> PyRound(PyFloat(page.width), 4),
     height |-> PyRound(PyFloat(page.height), 4)])

\* try: tables_data = [extract_table(t) for t in page.find_tables()]
\* except Exception: (warning printed) tables_data stays []
TablesOrEmpty(page) ==
  LET r == Comprehension(page.find_tables,
      [k \in 1..Len(page.find_tables.items) |-> extract_table(page.find_tables.items[k])])
  IN  IF IsRaise(r) THEN List(<<>>) ELSE r

process_page(page) ==
  MkDict(PageKeys,
    [chars |-> Comprehension(page.chars,
        [k \in 1..Len(page.chars.items) |-> extract_char(page.chars.items[k])]),
     words |-> Comprehension(page.extract_words,
         [k \in 1..Len(page.extract_words.items) |-> extract_word(page.extract_words.items[k])]),
     text |-> PyOr(page.extract_text, Str("")),
     lines |-> Comprehension(page.lines,
         [k \in 1..Len(page.lines.items) |-> extract_line(page.lines.items[k])]),
     rects |-> Comprehension(page.rects,
         [k \in 1..Len(page.rects.items) |-> extract_rect(page.rects.items[k])]),
     tables |-> TablesOrEmpty(page),
     page_number |-> IntV(page.page_number - 1),
     width |-> round_coord(page.width),
     height |-> round_coord(page.height)])

(***************************************************************************)
(* The input world.  A file name is its sequence of segments, the last     *)
(* one being the extension: <<"a", ".pdf">> is a.pdf.                       *)
(***************************************************************************)
RECURSIVE JoinName(_)
JoinName(n) == IF n = <<>> THEN "" ELSE Head(n) \o JoinName(Tail(n))

APdf == <<"a", ".pdf">>
BPdf == <<"b", ".pdf">>
EmptyPdf == <<"empty", ".pdf">>
NotesTxt == <<"notes", ".txt">>

\* every name a directory may hold, in the lexicographic order of the
\* joined strings (the order sorted() gives to str)
AllNames == <<APdf, BPdf, EmptyPdf, NotesTxt>>
PdfNames == {APdf, BPdf, EmptyPdf}

Rank(n) == CHOOSE r \in 1..Len(AllNames) : AllNames[r] = n

\* sorted(S) of a set of names
RECURSIVE Sorted(_)
Sorted(S) ==
  IF S = {} THEN <<>>
  ELSE LET m == CHOOSE x \in S : \A y \in S : Rank(x) <= Rank(y)
       IN  <<m>> \o Sorted(S \ {m})

\* fname.endswith(".pdf"), os.path.splitext(fname)[0]
EndsWithPdf(n) == n[Len(n)] = ".pdf"
SplitExtStem(n) == SubSeq(n, 1, Len(n) - 1)

\* pdf_file.replace(".pdf", ".json"): every occurrence is replaced
ReplacePdfJson(n) == [k \in 1..Len(n) |-> IF n[k] = ".pdf" THEN ".json" ELSE n[k]]

(***************************************************************************)
(* The external extractor.  What it does with a file is fixed per file     *)
(* (the oracle): whether open() raises, whether pdf.pages raises, for each *)
(* page which call raises, and whether close() raises.                     *)
(***************************************************************************)
PdfplumberVersion == "0.11.9"

Outcomes == {"ok", "tables_raise", "words_raise"}

\* the page counts a file of that name may have
PageCounts(n) == IF n = APdf THEN 1..MaxPages ELSE {1}

FailOpen == [open_ok |-> FALSE, pages_ok |-> FALSE, outcomes |-> <<>>, close_ok |-> TRUE]
FailEnum == [open_ok |-> TRUE, pages_ok |-> FALSE, outcomes |-> <<>>, close_ok |-> TRUE]

\* the behaviours the extractor may show on a file of that name; the
\* zero-byte file never opens
Docs(n) ==
  IF n = EmptyPdf THEN {FailOpen}
  ELSE {FailOpen, FailEnum} \cup
       {[open_ok |-> TRUE, pages_ok |-> TRUE, outcomes |-> o, close_ok |-> c] :
          o \in UNION {[1..k -> Outcomes] : k \in PageCounts(n)}, c \in BOOLEAN}

\* a coordinate with more than COORD_DECIMALS decimals
Coord(whole, n, k) == Flt(whole * Unit + (Unit \div 3) + Rank(n) * (Unit \div 8) + k)

RawPage(n, k, outcome) ==
  [page_number |-> k,
   width |-> IntV(612),
   height |-> Coord(792, n, k),
   chars |-> List(<<[text |-> Str("A"), x0 |-> Coord(72, n, k), top |-> Coord(80, n, k),
                     x1 |-> Coord(78, n, k), bottom |-> Coord(92, n, k),
                     fontname |-> Str("Helvetica"), size |-> IntV(12),
                     doctop |-> Coord(792 * (k - 1) + 80, n, k),
                     upright |-> Bool(TRUE), adv |-> Coord(6, n, k)]>>),
   extract_words |->
     IF outcome = "words_raise" THEN Raise("Exception")
     ELSE List(<<[text |-> Str("A"), x0 |-> Coord(72, n, k), top |-> Coord(80, n, k),
                  x1 |-> Coord(78, n, k), bottom |-> Coord(92, n, k),
                  doctop |-> Coord(792 * (k - 1) + 80, n, k)]>>),
   extract_text |-> Str("A"),
   lines |-> List(<<[x0 |-> Coord(10, n, k), top |-> Coord(20, n, k),
                     x1 |-> Coord(110, n, k), bottom |-> Coord(20, n, k),
                     linewidth |-> Coord(1, n, k)]>>),
   rects |-> List(<<[x0 |-> Coord(30, n, k), top |-> Coord(40, n, k),
                     x1 |-> Coord(50, n, k), bottom |-> Coord(60, n, k),
                     linewidth |-> Coord(0, n, k), stroke |-> Bool(TRUE),
                     fill |-> Bool(FALSE), stroking_color |-> IntV(0)]>>),
   find_tables |->
     IF outcome = "tables_raise" THEN Raise("Exception")
     ELSE List(<<[bbox |-> <<Coord(30, n, k), Coord(40, n, k), Coord(50, n, k), Coord(60, n, k)>>,
                  extract |-> List(<<<<Str("h"), None>>, <<Str("1"), Str("2")>>>>)]>>)]

\* pdf.pages of an opened document
DocPages(n, doc) == [k \in 1..Len(doc.outcomes) |-> RawPage(n, k, doc.outcomes[k])]

(***************************************************************************)
(* 4.4 Document Assembler.  The result of process_pdf is                   *)
(*   status  "return" or "raise" (an exception left process_pdf),          *)
(*   data    the value returned (None when status is "raise"),             *)
(*   opened  whether a handle was obtained from pdfplumber.open,           *)
(*   closed  whether close() was called on that handle before the exit.    *)
(* A close() that raises has still been called.                            *)
(***************************************************************************)
Result(status, data, opened, closed) ==
  [status |-> status, data |-> data, opened |-> opened, closed |-> closed]

\* the page records a loop over the pages appends, a raising page skipped
RECURSIVE KeepGood(_)
KeepGood(recs) ==
  IF recs = <<>> THEN <<>>
  ELSE IF IsRaise(Head(recs)) THEN KeepGood(Tail(recs))
  ELSE <<Head(recs)>> \o KeepGood(Tail(recs))

AnyRaise(recs) == \E k \in 1..Len(recs) : IsRaise(recs[k])

\* mutant: pdfplumber.open is called outside any try, so its exception
\* leaves process_pdf
xv_process_pdf_OpenUncaught(n, doc) ==
  IF ~doc.open_ok THEN Result("raise", None, FALSE, FALSE)
  ELSE IF ~doc.pages_ok THEN Result("raise", None, TRUE, FALSE)
  ELSE IF ~doc.close_ok THEN Result("raise", None, TRUE, TRUE)
  ELSE Result("return",
              Dict([source |-> Str(JoinName(n)),
                    pdfplumber_version |-> Str(PdfplumberVersion),
                    pages |-> List(KeepGood([k \in 1..Len(doc.outcomes) |->
                                 xv_extract_page_data(DocPages(n, doc)[k])]))]),
              TRUE, TRUE)

\* tests/fixtures/generate_cross_validation_golden.py
xv_process_pdf(n, doc) ==
  IF ~doc.open_ok THEN Result("return", None, FALSE, FALSE)
  ELSE IF ~doc.pages_ok THEN Result("raise", None, TRUE, FALSE)
  ELSE LET pages == DocPages(n, doc)
           recs == [k \in 1..Len(pages) |-> xv_extract_page_data(pages[k])]
       IN  IF ~doc.close_ok THEN Result("raise", None, TRUE, TRUE)
           ELSE Result("return",
                       Dict([source |-> Str(JoinName(n)),
                             pdfplumber_version |-> Str(PdfplumberVersion),
                             pages |-> List(KeepGood(recs))]),
                       TRUE, TRUE)

\* tests/fixtures/generate_golden.py
fx_process_pdf(n, doc) ==
  IF ~doc.open_ok THEN Result("return", None, FALSE, FALSE)
  ELSE IF ~doc.pages_ok THEN Result("raise", None, TRUE, FALSE)
  ELSE LET pages == DocPages(n, doc)
           recs == [k \in 1..Len(pages) |-> fx_extract_page_data(pages[k])]
       IN  IF AnyRaise(recs) THEN Result("raise", None, TRUE, FALSE)
           ELSE IF ~doc.close_ok THEN Result("raise", None, TRUE, TRUE)
           ELSE Result("return",
                       Dict([source |-> Str(JoinName(n)),
                             pages |-> List(recs)]),
                       TRUE, TRUE)

\* scripts/generate_golden.py: the with statement closes the handle on
\* every way out of its body
sc_process_pdf(n, doc) ==
  IF ~doc.open_ok THEN Result("raise", None, FALSE, FALSE)
  ELSE IF ~doc.pages_ok THEN Result("raise", None, TRUE, TRUE)
  ELSE LET pages == DocPages(n, doc)
           recs == [k \in 1..Len(pages) |-> process_page(pages[k])]
       IN  IF AnyRaise(recs) THEN Result("raise", None, TRUE, TRUE)
           ELSE IF ~doc.close_ok THEN Result("raise", None, TRUE, TRUE)
           ELSE Result("return",
                       Dict([source |-> Str(JoinName(n)),
                             pdfplumber_version |-> Str(PdfplumberVersion),
                             pages |-> List(recs)]),
                       TRUE, TRUE)

(***************************************************************************)
(* 4.5 Batch Driver: the state of one run of a generator's main().         *)
(***************************************************************************)
VARIABLES
  script,     \* which generator runs: "xval", "fixtures" or "scripts"
  dirs,       \* the input directories: [exists, names] per directory
  oracle,     \* what the extractor does with each file name
  golden,     \* GOLDEN_DIR: artifact name -> the JSON document written
  stale,      \* whether GOLDEN_DIR held an artifact before the first run
  pc,         \* "start", "dirs", "loop", "returned", "done", "exit1", "crashed"
  src_dirs,   \* fixtures: the source directories still to visit
  pdf_files,  \* the sorted listing the file loop iterates over
  i,          \* index in pdf_files of the current file
  ret,        \* the result of the last process_pdf call
  count,      \* generated counter
  skipped,    \* skipped counter
  failed,     \* failed counter
  opened,     \* names pdfplumber.open was called with in this run
  handles,    \* names whose handle is held open
  run,        \* 1 for the first run of the batch, 2 for the second
  prev,       \* what the first run left: artifacts, counters, outcome
  nin,        \* projector check: the raw object handed to a projector
  nout        \* projector check: the operation applied and its result

batchVars == <<script, dirs, oracle, golden, stale, pc, src_dirs, pdf_files, i,
               ret, count, skipped, failed, opened, handles, run, prev>>
normVars == <<nin, nout>>
vars == <<batchVars, normVars>>

Scripts == {"xval", "fixtures", "scripts"}

\* PDF_DIR of xval and scripts; SOURCE_DIRS of fixtures
PDF_DIR == "pdfs"
SOURCE_DIRS == <<"generated", "downloaded">>

SKIP_PDFS == {<<"password-example", ".pdf">>, <<"empty", ".pdf">>}

InputDirs(sc) == IF sc = "fixtures" THEN {SOURCE_DIRS[k] : k \in 1..Len(SOURCE_DIRS)}
                 ELSE {PDF_DIR}

MissingDir == [exists |-> FALSE, names |-> {}]
ExistingDir(names) == [exists |-> TRUE, names |-> names]

\* the states an input directory may be in
DirStates(d) ==
  IF d = "downloaded" THEN {MissingDir, ExistingDir({APdf})}
  ELSE {MissingDir} \cup {ExistingDir(S \cup {NotesTxt}) : S \in SUBSET PdfNames}

Listed(ds) == UNION {ds[d].names : d \in DOMAIN ds}

\* the oracles over the listed names; an unlisted name is never opened and
\* gets one fixed entry
RECURSIVE Oracles(_, _)
Oracles(names, listed) ==
  IF names = <<>> THEN {<<>>}
  ELSE LET n == Head(names)
           rest == Oracles(Tail(names), listed)
       IN  {(n :> d) @@ r : d \in (IF n \in listed THEN Docs(n) ELSE {FailOpen}), r \in rest}

NoResult == Result("none", None, FALSE, FALSE)
Idle == [op |-> "none", out |-> None]
StaleArtifact == Str("stale")
NoPrev == [golden |-> <<>>, count |-> 0, skipped |-> 0, failed |-> 0, pc |-> "none"]

NormIdle == nin = None /\ nout = Idle

Init ==
  /\ script \in Scripts
  /\ dirs \in [InputDirs(script) -> UNION {DirStates(d) : d \in InputDirs(script)}]
  /\ \A d \in InputDirs(script) : dirs[d] \in DirStates(d)
  /\ oracle \in Oracles(Sorted(PdfNames), Listed(dirs))
  /\ stale \in BOOLEAN
  /\ golden = IF stale THEN (<<"a", ".json">> :> StaleArtifact) ELSE <<>>
  /\ pc = "start"
  /\ src_dirs = <<>>
  /\ pdf_files = <<>>
  /\ i = 1
  /\ ret = NoResult
  /\ count = 0 /\ skipped = 0 /\ failed = 0
  /\ opened = {} /\ handles = {}
  /\ run = 1
  /\ prev = NoPrev
  /\ NormIdle

Terminated == pc \in {"done", "exit1", "crashed"}

\* the exit status of the process
ExitStatus == IF pc = "done" THEN 0 ELSE 1

\* with open(out_path, "w") ...: json.dump(data, f, ...)
WriteArtifact(g, name, data) == (name :> data) @@ g

\* the call of process_pdf made by a file loop: its result, the open call
\* and the handle it leaves behind
CallProcessPdf(r, n) ==
  /\ ret' = r
  /\ opened' = opened \cup {n}
  /\ handles' = IF r.opened /\ ~r.closed THEN handles \cup {n} ELSE handles
  /\ pc' = IF r.status = "raise" THEN "crashed" ELSE "returned"

(***************************************************************************)
(* main() of tests/fixtures/generate_cross_validation_golden.py            *)
(***************************************************************************)
\* mutant: the isdir check is missing and a missing directory lists as empty
XvMainStartNoDirCheck ==
  /\ script = "xval" /\ pc = "start"
  /\ count' = 0 /\ skipped' = 0 /\ failed' = 0
  /\ pc' = "loop"
  /\ pdf_files' = Sorted({f \in dirs[PDF_DIR].names : EndsWithPdf(f)})
  /\ i' = 1
  /\ UNCHANGED <<script, dirs, oracle, golden, stale, src_dirs, ret, opened,
                 handles, run, prev, normVars>>

\* mutant: the counters are not set to zero when main() starts
XvMainStartNoReset ==
  /\ script = "xval" /\ pc = "start"
  /\ IF ~dirs[PDF_DIR].exists
     THEN pc' = "exit1" /\ pdf_files' = <<>>
     ELSE /\ pc' = "loop"
          /\ pdf_files' = Sorted({f \in dirs[PDF_DIR].names : EndsWithPdf(f)})
  /\ i' = 1
  /\ UNCHANGED <<script, dirs, oracle, golden, stale, src_dirs, ret, count, skipped,
                 failed, opened, handles, run, prev, normVars>>

XvMainStart ==
  /\ script = "xval" /\ pc = "start"
  /\ count' = 0 /\ skipped' = 0 /\ failed' = 0
  /\ IF ~dirs[PDF_DIR].exists
     THEN pc' = "exit1" /\ pdf_files' = <<>>
     ELSE /\ pc' = "loop"
          /\ pdf_files' = Sorted({f \in dirs[PDF_DIR].names : EndsWithPdf(f)})
  /\ i' = 1
  /\ UNCHANGED <<script, dirs, oracle, golden, stale, src_dirs, ret, opened,
                 handles, run, prev, normVars>>

\* mutant: a skip-listed file is counted as failed
XvSkipAsFailed ==
  /\ script = "xval" /\ pc = "loop" /\ i <= Len(pdf_files)
  /\ pdf_files[i] \in SKIP_PDFS
  /\ failed' = failed + 1
  /\ i' = i + 1
  /\ UNCHANGED <<script, dirs, oracle, golden, stale, pc, src_dirs, pdf_files, ret,
                 count, skipped, opened, handles, run, prev, normVars>>

XvSkip ==
  /\ script = "xval" /\ pc = "loop" /\ i <= Len(pdf_files)
  /\ pdf_files[i] \in SKIP_PDFS
  /\ skipped' = skipped + 1
  /\ i' = i + 1
  /\ UNCHANGED <<script, dirs, oracle, golden, stale, pc, src_dirs, pdf_files, ret,
                 count, failed, opened, handles, run, prev, normVars>>

XvProcessPdf ==
  /\ script = "xval" /\ pc = "loop" /\ i <= Len(pdf_files)
  /\ pdf_files[i] \notin SKIP_PDFS
  /\ CallProcessPdf(xv_process_pdf(pdf_files[i], oracle[pdf_files[i]]), pdf_files[i])
  /\ UNCHANGED <<script, dirs, oracle, golden, stale, src_dirs, pdf_files, i,
                 count, skipped, failed, run, prev, normVars>>

XvFailed ==
  /\ script = "xval" /\ pc = "returned"
  /\ ret.data = None
  /\ failed' = failed + 1
  /\ i' = i + 1
  /\ pc' = "loop"
  /\ UNCHANGED <<script, dirs, oracle, golden, stale, src_dirs, pdf_files, ret,
                 count, skipped, opened, handles, run, prev, normVars>>

\* mutant: a written artifact is not counted as generated
XvWriteNoCount ==
  /\ script = "xval" /\ pc = "returned"
  /\ ret.data # None
  /\ golden' = WriteArtifact(golden, SplitExtStem(pdf_files[i]) \o <<".json">>, ret.data)
  /\ i' = i + 1
  /\ pc' = "loop"
  /\ UNCHANGED <<script, dirs, oracle, stale, src_dirs, pdf_files, ret, count,
                 skipped, failed, opened, handles, run, prev, normVars>>

XvWrite ==
  /\ script = "xval" /\ pc = "returned"
  /\ ret.data # None
  /\ golden' = WriteArtifact(golden, SplitExtStem(pdf_files[i]) \o <<".json">>, ret.data)
  /\ count' = count + 1
  /\ i' = i + 1
  /\ pc' = "loop"
  /\ UNCHANGED <<script, dirs, oracle, stale, src_dirs, pdf_files, ret,
                 skipped, failed, opened, handles, run, prev, normVars>>

XvSummary ==
  /\ script = "xval" /\ pc = "loop" /\ i > Len(pdf_files)
  /\ pc' = "done"
  /\ UNCHANGED <<script, dirs, oracle, golden, stale, src_dirs, pdf_files, i, ret,
                 count, skipped, failed, opened, handles, run, prev, normVars>>

(***************************************************************************)
(* main() of tests/fixtures/generate_golden.py                             *)
(***************************************************************************)
FxMainStart ==
  /\ script = "fixtures" /\ pc = "start"
  /\ count' = 0
  /\ src_dirs' = SOURCE_DIRS
  /\ pc' = "dirs"
  /\ UNCHANGED <<script, dirs, oracle, golden, stale, pdf_files, i, ret, skipped,
                 failed, opened, handles, run, prev, normVars>>

\* if not os.path.isdir(src_dir): print(...); continue
FxDirMissing ==
  /\ script = "fixtures" /\ pc = "dirs" /\ src_dirs # <<>>
  /\ ~dirs[Head(src_dirs)].exists
  /\ src_dirs' = Tail(src_dirs)
  /\ UNCHANGED <<script, dirs, oracle, golden, stale, pc, pdf_files, i, ret, count,
                 skipped, failed, opened, handles, run, prev, normVars>>

\* for fname in sorted(os.listdir(src_dir)):
FxDirEnter ==
  /\ script = "fixtures" /\ pc = "dirs" /\ src_dirs # <<>>
  /\ dirs[Head(src_dirs)].exists
  /\ pdf_files' = Sorted(dirs[Head(src_dirs)].names)
  /\ i' = 1
  /\ src_dirs' = Tail(src_dirs)
  /\ pc' = "loop"
  /\ UNCHANGED <<script, dirs, oracle, golden, stale, ret, count, skipped, failed,
                 opened, handles, run, prev, normVars>>

FxSkipNonPdf ==
  /\ script = "fixtures" /\ pc = "loop" /\ i <= Len(pdf_files)
  /\ ~EndsWithPdf(pdf_files[i])
  /\ i' = i + 1
  /\ UNCHANGED <<script, dirs, oracle, golden, stale, pc, src_dirs, pdf_files, ret,
                 count, skipped, failed, opened, handles, run, prev, normVars>>

FxProcessPdf ==
  /\ script = "fixtures" /\ pc = "loop" /\ i <= Len(pdf_files)
  /\ EndsWithPdf(pdf_files[i])
  /\ CallProcessPdf(fx_process_pdf(pdf_files[i], oracle[pdf_files[i]]), pdf_files[i])
  /\ UNCHANGED <<script, dirs, oracle, golden, stale, src_dirs, pdf_files, i,
                 count, skipped, failed, run, prev, normVars>>

\* if data is None: continue
FxNone ==
  /\ script = "fixtures" /\ pc = "returned"
  /\ ret.data = None
  /\ i' = i + 1
  /\ pc' = "loop"
  /\ UNCHANGED <<script, dirs, oracle, golden, stale, src_dirs, pdf_files, ret,
                 count, skipped, failed, opened, handles, run, prev, normVars>>

FxWrite ==
  /\ script = "fixtures" /\ pc = "returned"
  /\ ret.data # None
  /\ golden' = WriteArtifact(golden, SplitExtStem(pdf_files[i]) \o <<".json">>, ret.data)
  /\ count' = count + 1
  /\ i' = i + 1
  /\ pc' = "loop"
  /\ UNCHANGED <<script, dirs, oracle, stale, src_dirs, pdf_files, ret,
                 skipped, failed, opened, handles, run, prev, normVars>>

FxDirDone ==
  /\ script = "fixtures" /\ pc = "loop" /\ i > Len(pdf_files)
  /\ pc' = "dirs"
  /\ UNCHANGED <<script, dirs, oracle, golden, stale, src_dirs, pdf_files, i, ret,
                 count, skipped, failed, opened, handles, run, prev, normVars>>

FxDone ==
  /\ script = "fixtures" /\ pc = "dirs" /\ src_dirs = <<>>
  /\ pc' = "done"
  /\ UNCHANGED <<script, dirs, oracle, golden, stale, src_dirs, pdf_files, i, ret,
                 count, skipped, failed, opened, handles, run, prev, normVars>>

(***************************************************************************)
(* main() of scripts/generate_golden.py.  os.listdir of a directory that   *)
(* does not exist raises FileNotFoundError, which nothing catches.         *)
(***************************************************************************)
ScMainStart ==
  /\ script = "scripts" /\ pc = "start"
  /\ IF ~dirs[PDF_DIR].exists
     THEN pc' = "crashed" /\ pdf_files' = <<>>
     ELSE LET fs == Sorted({f \in dirs[PDF_DIR].names : EndsWithPdf(f)})
          IN  /\ pdf_files' = fs
              /\ pc' = IF fs = <<>> THEN "exit1" ELSE "loop"
  /\ i' = 1
  /\ UNCHANGED <<script, dirs, oracle, golden, stale, src_dirs, ret, count, skipped,
                 failed, opened, handles, run, prev, normVars>>

ScProcessPdf ==
  /\ script = "scripts" /\ pc = "loop" /\ i <= Len(pdf_files)
  /\ CallProcessPdf(sc_process_pdf(pdf_files[i], oracle[pdf_files[i]]), pdf_files[i])
  /\ UNCHANGED <<script, dirs, oracle, golden, stale, src_dirs, pdf_files, i,
                 count, skipped, failed, run, prev, normVars>>

ScWrite ==
  /\ script = "scripts" /\ pc = "returned"
  /\ golden' = WriteArtifact(golden, ReplacePdfJson(pdf_files[i]), ret.data)
  /\ i' = i + 1
  /\ pc' = "loop"
  /\ UNCHANGED <<script, dirs, oracle, stale, src_dirs, pdf_files, ret, count,
                 skipped, failed, opened, handles, run, prev, normVars>>

ScDone ==
  /\ script = "scripts" /\ pc = "loop" /\ i > Len(pdf_files)
  /\ pc' = "done"
  /\ UNCHANGED <<script, dirs, oracle, golden, stale, src_dirs, pdf_files, i, ret,
                 count, skipped, failed, opened, handles, run, prev, normVars>>

(***************************************************************************)
(* The batch is run a second time on the same input directory, with the    *)
(* same extractor: a new process, which holds no handle of the first.      *)
(***************************************************************************)
Snapshot == [golden |-> golden, count |-> count, skipped |-> skipped,
             failed |-> failed, pc |-> pc]

Rerun ==
  /\ Terminated /\ run = 1
  /\ run' = 2
  /\ prev' = Snapshot
  /\ pc' = "start"
  /\ src_dirs' = <<>> /\ pdf_files' = <<>> /\ i' = 1
  /\ ret' = NoResult
  /\ opened' = {} /\ handles' = {}
  /\ UNCHANGED <<script, dirs, oracle, golden, stale, count, skipped, failed, normVars>>

Next ==
  \/ XvMainStart \/ XvSkip \/ XvProcessPdf \/ XvFailed \/ XvWrite \/ XvSummary
  \/ FxMainStart \/ FxDirMissing \/ FxDirEnter \/ FxSkipNonPdf \/ FxProcessPdf
  \/ FxNone \/ FxWrite \/ FxDirDone \/ FxDone
  \/ ScMainStart \/ ScProcessPdf \/ ScWrite \/ ScDone
  \/ Rerun

Spec == Init /\ [][Next]_vars

(***************************************************************************)
(* Vocabulary of the properties.                                           *)
(***************************************************************************)
\* <stem>.json of an input <stem>.pdf, and back
Artifact(n) == SplitExtStem(n) \o <<".json">>
SourceOf(a) == SplitExtStem(a) \o <<".pdf">>

\* GOLDEN_DIR as the current run found it
GoldenAtStart ==
  IF run = 2 THEN prev.golden
  ELSE IF stale THEN (<<"a", ".json">> :> StaleArtifact) ELSE <<>>

\* the .pdf names main() discovers in PDF_DIR
Discovered == {f \in dirs[PDF_DIR].names : EndsWithPdf(f)}

\* the extractor opens the file and extracts every page without an error
AllPagesOk(doc) ==
  /\ doc.open_ok /\ doc.pages_ok
  /\ \A k \in 1..Len(doc.outcomes) : doc.outcomes[k] = "ok"

\* the only failure on the file is table detection, on at least one page
OnlyTablesFail(doc) ==
  /\ doc.open_ok /\ doc.pages_ok /\ doc.close_ok
  /\ \A k \in 1..Len(doc.outcomes) : doc.outcomes[k] \in {"ok", "tables_raise"}
  /\ \E k \in 1..Len(doc.outcomes) : doc.outcomes[k] = "tables_raise"

\* the file the loop is at
Current == pdf_files[i]

\* pages of a document record
PagesOf(data) == data.d.pages.items

(***************************************************************************)
(* C1.  A batch run of the cross-validation generator that starts with an  *)
(* empty output directory leaves, at its summary, an artifact <stem>.json  *)
(* exactly for the inputs <stem>.pdf that were opened and had every page   *)
(* extracted without an error, and never holds an artifact whose pages     *)
(* list lacks a page of its source document.                               *)
(***************************************************************************)
C1_ArtifactIffFullSuccess ==
  (script = "xval" /\ run = 1 /\ ~stale) =>
    /\ \A a \in DOMAIN golden :
         Len(PagesOf(golden[a])) = Len(oracle[SourceOf(a)].outcomes)
    /\ pc = "done" =>
         \A n \in Discovered :
           (Artifact(n) \in DOMAIN golden) <=> (n \in opened /\ AllPagesOk(oracle[n]))

(***************************************************************************)
(* C2.  When the input directory exists, a run of the cross-validation     *)
(* generator ends only at its final summary, with every discovered file    *)
(* handled, whatever the extractor raised on the way.                      *)
(***************************************************************************)
C2_AlwaysReachesSummary ==
  (script = "xval" /\ dirs[PDF_DIR].exists /\ Terminated) =>
    (pc = "done" /\ i = Len(pdf_files) + 1)

(***************************************************************************)
(* C3.  Cross-validation generator: when open raises on a discovered file  *)
(* not on the skip-list, process_pdf returns None; the driver then adds    *)
(* exactly one to failed, leaves generated and skipped alone, writes no    *)
(* artifact and moves to the next file.                                    *)
(***************************************************************************)
C3_OpenFailureStep ==
  /\ (script = "xval" /\ pc = "loop" /\ i <= Len(pdf_files)
        /\ Current \notin SKIP_PDFS /\ ~oracle[Current].open_ok)
     => /\ pc' = "returned" /\ ret'.status = "return" /\ ret'.data = None
        /\ count' = count /\ skipped' = skipped /\ failed' = failed
        /\ golden' = golden /\ i' = i
  /\ (script = "xval" /\ pc = "returned" /\ ~oracle[Current].open_ok)
     => /\ failed' = failed + 1
        /\ count' = count /\ skipped' = skipped
        /\ golden' = golden
        /\ pc' = "loop" /\ i' = i + 1 /\ pdf_files' = pdf_files

C3_OpenFailureCountsFailed == [][C3_OpenFailureStep]_vars

\* a file whose open raised has been counted as failed, has no artifact,
\* and the loop stands at a later file
C3_Witness ==
  /\ script = "xval" /\ run = 1 /\ ~stale /\ pc = "loop"
  /\ i = 2 /\ Len(pdf_files) >= 2
  /\ ~oracle[pdf_files[1]].open_ok /\ pdf_files[1] \notin SKIP_PDFS
  /\ failed = 1 /\ count = 0 /\ skipped = 0
  /\ Artifact(pdf_files[1]) \notin DOMAIN golden

(***************************************************************************)
(* C4.  Cross-validation generator: a discovered file on the skip-list is  *)
(* never opened and gets no artifact; handling it adds exactly one to      *)
(* skipped and changes neither failed nor generated.                       *)
(***************************************************************************)
C4_SkipStep ==
  (script = "xval" /\ pc = "loop" /\ i <= Len(pdf_files) /\ Current \in SKIP_PDFS)
  => /\ skipped' = skipped + 1
     /\ failed' = failed /\ count' = count
     /\ opened' = opened /\ golden' = golden /\ handles' = handles
     /\ pc' = "loop" /\ i' = i + 1

C4_NeverTouched ==
  script = "xval" =>
    \A n \in SKIP_PDFS : n \notin opened /\ Artifact(n) \notin DOMAIN golden

C4_SkipListed == [][C4_SkipStep]_vars /\ []C4_NeverTouched

\* a skip-listed file has been passed over and the run went on to its summary
C4_Witness ==
  /\ script = "xval" /\ pc = "done"
  /\ \E k \in 1..Len(pdf_files) : pdf_files[k] \in SKIP_PDFS
  /\ skipped = 1
  /\ opened # {}

(***************************************************************************)
(* C5 as claimed.  In each generator, a run that met a configured input    *)
(* directory that does not exist ends with a non-zero exit status, having  *)
(* opened no file and written no artifact.                                 *)
(***************************************************************************)
SomeDirMissing == \E d \in DOMAIN dirs : ~dirs[d].exists
AllDirsMissing == \A d \in DOMAIN dirs : ~dirs[d].exists

PageAsExtracted(n, k) ==
  IF script = "xval" THEN xv_extract_page_data(RawPage(n, k, "ok"))
  ELSE process_page(RawPage(n, k, "ok"))

SameButTables(rec, full) ==
  /\ ~IsRaise(rec)
  /\ rec.d.tables = List(<<>>)
  /\ \A f \in {"page_number", "width", "height", "chars", "words", "text", "lines", "rects"} :
       rec.d[f] = full.d[f]

C6_TableFailureKeepsPage ==
  (script \in {"xval", "scripts"} /\ pc = "returned" /\ OnlyTablesFail(oracle[Current]))
  => /\ ret.data # None
     /\ Len(PagesOf(ret.data)) = Len(oracle[Current].outcomes)
     /\ \A k \in 1..Len(oracle[Current].outcomes) :
          oracle[Current].outcomes[k] = "tables_raise" =>
            SameButTables(PagesOf(ret.data)[k], PageAsExtracted(Current, k))

(***************************************************************************)
(* C7.  In every document record process_pdf returns, the record at index  *)
(* i of pages (zero-based) has page_number i.                              *)
(***************************************************************************)
C7_PageNumbersSequential ==
  (pc = "returned" /\ ret.data # None) =>
    \A k \in 1..Len(PagesOf(ret.data)) :
      PagesOf(ret.data)[k].d.page_number = IntV(k - 1)

(***************************************************************************)
(* C8.  Once process_pdf has exited, by a return or by an exception, no    *)
(* handle it opened is still open.                                         *)
(***************************************************************************)
C8_HandlesReleased == handles = {}

(***************************************************************************)
(* C9.  A second run of the batch on the same input directory, with an     *)
(* extractor that does the same on the same file, ends as the first did:   *)
(* the same artifacts with the same contents, the same generated, skipped  *)
(* and failed totals, the same way of ending.                              *)
(***************************************************************************)
C9_SecondRunSame ==
  (run = 2 /\ Terminated) =>
    /\ golden = prev.golden
    /\ count = prev.count /\ skipped = prev.skipped /\ failed = prev.failed
    /\ pc = prev.pc

\* a second run has written an artifact over the first run's, failed on
\* another file and reached its summary
C9_Witness ==
  /\ run = 2 /\ pc = "done" /\ script = "xval"
  /\ count = 1 /\ failed = 1
  /\ stale
  /\ golden[<<"a", ".json">>] # StaleArtifact

(***************************************************************************)
(* The Normalizer and the Projector on their own: raw values and raw       *)
(* objects are drawn from bounded sets and handed to each operation, one   *)
(* operation per behaviour.                                                *)
(***************************************************************************)
\* raw floats cover ten and a half grid steps on each side of zero
RawRange == 10 * Grid(COORD_DECIMALS) + Grid(COORD_DECIMALS) \div 2

RawValues ==
  {None} \cup {Flt(m) : m \in -RawRange..RawRange} \cup {IntV(n) : n \in -1..2}

\* the values the fields of a raw object are built from: zero, a tie, a
\* negative and a positive number off the grid, an int
ProjValues ==
  {Flt(0), Flt(Grid(COORD_DECIMALS) \div 2), Flt(-(Unit \div 3)),
   Flt(12 * Unit + 2 * (Unit \div 3)), IntV(3)}

Shift(v, j) == IF v.t = "float" THEN Flt(v.m + 7 * j) ELSE IntV(v.n + j)

NumKeys == <<"x0", "top", "x1", "bottom", "size", "doctop", "linewidth", "line_width", "lw">>
NumKeySet == {NumKeys[k] : k \in 1..Len(NumKeys)}
AllKeys == NumKeySet \cup {"text", "fontname", "upright", "stroke", "fill",
                           "stroking_color", "non_stroking_color"}

KeyValue(k, v) ==
  IF k \in NumKeySet THEN Shift(v, CHOOSE j \in 1..Len(NumKeys) : NumKeys[j] = k)
  ELSE IF k \in {"text", "fontname"} THEN Str(k)
  ELSE IF k \in {"upright", "stroke", "fill"} THEN Bool(k # "fill")
  ELSE IntV(0)

\* a raw object: the keys in absent are missing, those in nulls hold None
RawDict(v, absent, nulls) ==
  [k \in AllKeys \ absent |-> IF k \in nulls THEN None ELSE KeyValue(k, v)]

RawTable(v) ==
  [bbox |-> <<Shift(v, 1), Shift(v, 2), Shift(v, 3), Shift(v, 4)>>,
   extract |-> List(<<<<Str("h"), None>>>>)]

RawPageOf(v, absent, nulls) ==
  [page_number |-> 1, width |-> v, height |-> Shift(v, 1),
   chars |-> List(<<RawDict(v, absent, nulls)>>),
   extract_words |-> List(<<RawDict(v, absent, nulls)>>),
   extract_text |-> None,
   lines |-> List(<<RawDict(v, absent, nulls)>>),
   rects |-> List(<<RawDict(v, absent, nulls)>>),
   find_tables |-> List(<<RawTable(v)>>)]

\* the sets of keys a raw object may lack (or hold None in): none, any one
\* key, or the linewidth key together with its alternates
KeyChoices ==
  {{}} \cup {{k} : k \in AllKeys}
       \cup {{"linewidth", "line_width"}, {"linewidth", "lw"}, {"linewidth", "line_width", "lw"}}

DictOps == {"extract_char", "extract_word", "extract_line", "extract_rect",
            "XvChar", "XvWord", "XvLine", "XvRect", "FxChar", "FxWord"}
TableOps == {"extract_table", "XvTable", "FxTable"}
PageOps == {"process_page", "xv_extract_page_data", "fx_extract_page_data"}

Apply(op, x) ==
  CASE op = "extract_char" -> extract_char(x)
    [] op = "extract_word" -> extract_word(x)
    [] op = "extract_line" -> extract_line(x)
    [] op = "extract_rect" -> extract_rect(x)
    [] op = "extract_table" -> extract_table(x)
    [] op = "process_page" -> process_page(x)
    [] op = "XvChar" -> XvChar(x)
    [] op = "XvWord" -> XvWord(x)
    [] op = "XvLine" -> XvLine(x)
    [] op = "XvRect" -> XvRect(x)
    [] op = "XvTable" -> XvTable(x)
    [] op = "xv_extract_page_data" -> xv_extract_page_data(x)
    [] op = "FxChar" -> FxChar(x)
    [] op = "FxWord" -> FxWord(x)
    [] op = "FxTable" -> FxTable(x)
    [] op = "fx_extract_page_data" -> fx_extract_page_data(x)

InitNorm ==
  /\ script = "scripts"
  /\ dirs = [d \in InputDirs("scripts") |-> MissingDir]
  /\ oracle = [n \in PdfNames |-> FailOpen]
  /\ stale = FALSE /\ golden = <<>>
  /\ pc = "start"
  /\ src_dirs = <<>> /\ pdf_files = <<>> /\ i = 1
  /\ ret = NoResult
  /\ count = 0 /\ skipped = 0 /\ failed = 0
  /\ opened = {} /\ handles = {}
  /\ run = 1 /\ prev = NoPrev
  /\ NormIdle

NormRound ==
  /\ NormIdle
  /\ \E v \in RawValues :
       /\ nin' = v
       /\ nout' = [op |-> "round_coord", out |-> round_coord(v)]
  /\ UNCHANGED batchVars

NormProjectDict ==
  /\ NormIdle
  /\ \E op \in DictOps, v \in ProjValues, absent \in KeyChoices, nulls \in KeyChoices :
       /\ nin' = RawDict(v, absent, nulls)
       /\ nout' = [op |-> op, out |-> Apply(op, nin')]
  /\ UNCHANGED batchVars

NormProjectTable ==
  /\ NormIdle
  /\ \E op \in TableOps, v \in ProjValues :
       /\ nin' = RawTable(v)
       /\ nout' = [op |-> op, out |-> Apply(op, nin')]
  /\ UNCHANGED batchVars

NormProjectPage ==
  /\ NormIdle
  /\ \E op \in PageOps, v \in ProjValues, absent \in KeyChoices, nulls \in KeyChoices :
       /\ nin' = RawPageOf(v, absent, nulls)
       /\ nout' = [op |-> op, out |-> Apply(op, nin')]
  /\ UNCHANGED batchVars

NextNorm == NormRound \/ NormProjectDict \/ NormProjectTable \/ NormProjectPage

SpecNorm == InitNorm /\ [][NextNorm]_vars

(***************************************************************************)
(* C10.  round_coord returns None exactly when its input is None, and      *)
(* otherwise the multiple of 10^-4 nearest to the input; every number in   *)
(* every record a projector or page assembler emits is null or has at most *)
(* 4 digits after the decimal point.                                       *)
(***************************************************************************)
Abs(x) == IF x < 0 THEN -x ELSE x

\* a number with at most nd digits after the decimal point
AtMostDecimals(x, nd) == x.t = "int" \/ (x.t = "float" /\ x.m % Grid(nd) = 0)

RECURSIVE NumbersRounded(_)
NumbersRounded(x) ==
  CASE x.t = "float" -> AtMostDecimals(x, 4)
    [] x.t = "dict" -> \A k \in DOMAIN x.d : NumbersRounded(x.d[k])
    [] x.t = "list" -> \A k \in 1..Len(x.items) : NumbersRounded(x.items[k])
    [] OTHER -> TRUE

C10_RoundedToFourDecimals ==
  /\ nout.op = "round_coord" =>
       /\ (nout.out = None) <=> (nin = None)
       /\ nin # None =>
            /\ nout.out.t = "float"
            /\ AtMostDecimals(nout.out, 4)
            /\ 2 * Abs(nout.out.m - PyFloat(nin).m) <= Grid(4)
  /\ nout.op \in DictOps \cup TableOps \cup PageOps => NumbersRounded(nout.out)

\* a page whose width is off the grid and whose char lacks a doctop has
\* been assembled: the width is rounded up to the grid, the doctop is null
C10_Witness ==
  /\ nout.op = "process_page"
  /\ nin.width = Flt(12 * Unit + 2 * (Unit \div 3))
  /\ ~IsRaise(nout.out)
  /\ nout.out.d.width = Flt(12 * Unit + 2 * (Unit \div 3) + Grid(4) - (2 * (Unit \div 3) % Grid(4)))
  /\ nout.out.d.chars.items[1].d.doctop = None

(***************************************************************************)
(* C11.  Every table a generator emits has, row by row, as many cells as   *)
(* the extractor returned, in the same order, and no cell is null: a cell  *)
(* the extractor returned as None is the empty string.                     *)
(***************************************************************************)
CellsNormalised(rows, src) ==
  /\ Len(rows) = Len(src)
  /\ \A r \in 1..Len(src) :
       /\ Len(rows[r].items) = Len(src[r])
       /\ \A c \in 1..Len(src[r]) :
            rows[r].items[c] = IF src[r][c] = None THEN Str("") ELSE src[r][c]

C11_NoNullCells ==
  (nout.op \in TableOps /\ ~IsRaise(nout.out)) =>
    CellsNormalised(nout.out.d.rows.items, nin.extract.items)

(***************************************************************************)
(* C12.  A batch run that starts with an empty output directory ends with  *)
(* exactly one artifact per successfully processed input: every artifact   *)
(* is <stem>.json of an input that was processed, and there are as many    *)
(* artifacts as inputs written (the generated counter; in                  *)
(* scripts/generate_golden.py, which keeps no counter, every listed file). *)
(***************************************************************************)
\* the number of inputs this run has written an artifact for
Generated == IF script = "scripts" THEN i - 1 ELSE count

C12_OneArtifactPerSuccess ==
  (run = 1 /\ ~stale /\ pc = "done") =>
    /\ \A a \in DOMAIN golden : \E n \in opened : a = Artifact(n)
    /\ Cardinality(DOMAIN golden) = Generated

(***************************************************************************)
(* C13.  Projecting a raw char, word, line or rect never raises, whatever  *)
(* fields are absent or null: the record with the complete field set is    *)
(* returned, a text field being a string and a number being a number or    *)
(* null.                                                                   *)
(***************************************************************************)
ObjectOps == {"extract_char", "extract_word", "extract_line", "extract_rect",
              "XvChar", "XvWord", "XvLine", "XvRect"}

FieldsOf(op) ==
  CASE op \in {"extract_char", "XvChar"} ->
         {"text", "x0", "top", "x1", "bottom", "fontname", "size", "doctop", "upright"}
    [] op \in {"extract_word", "XvWord"} -> {"text", "x0", "top", "x1", "bottom", "doctop"}
    [] op \in {"extract_line", "XvLine"} -> {"x0", "top", "x1", "bottom", "linewidth"}
    [] op \in {"extract_rect", "XvRect"} ->
         {"x0", "top", "x1", "bottom", "linewidth", "stroke", "fill"}

Defaulted(rec) ==
  /\ \A f \in DOMAIN rec \cap {"text", "fontname"} : rec[f].t = "str"
  /\ \A f \in DOMAIN rec \cap NumKeySet : rec[f].t \in {"None", "float", "int"}

\* the projector returned a record
ProjectionReturned == ~IsRaise(nout.out)

C13_ProjectionNeverRaises ==
  nout.op \in ObjectOps =>
    /\ ProjectionReturned
    /\ DOMAIN nout.out.d = FieldsOf(nout.op)
    /\ Defaulted(nout.out.d)

(***************************************************************************)
(* C14.  The linewidth of a projected line or rect is the rounded primary  *)
(* field ("linewidth") when the raw object has it, otherwise the rounded   *)
(* alternate field ("line_width" in scripts/generate_golden.py, "lw" in    *)
(* the cross-validation generator) when it has that, otherwise 0.0; it is  *)
(* never null.  Raw objects that hold None in one of these fields are left *)
(* aside.                                                                  *)
(***************************************************************************)
LineRectOps == {"extract_line", "extract_rect", "XvLine", "XvRect"}

AlternateKey(op) == IF op \in {"extract_line", "extract_rect"} THEN "line_width" ELSE "lw"

\* the number a value stands for, in fixed point
AsFixed(x) == PyFloat(x).m

ExpectedLinewidth(op, obj) ==
  IF "linewidth" \in DOMAIN obj THEN RoundFloat(AsFixed(obj["linewidth"]), 4)
  ELSE IF AlternateKey(op) \in DOMAIN obj THEN RoundFloat(AsFixed(obj[AlternateKey(op)]), 4)
  ELSE 0

C14_LinewidthFallback ==
  (/\ nout.op \in LineRectOps
   /\ ~IsRaise(nout.out)
   /\ \A k \in DOMAIN nin \cap {"linewidth", "line_width", "lw"} : nin[k] # None)
  => /\ nout.out.d.linewidth # None
     /\ AsFixed(nout.out.d.linewidth) = ExpectedLinewidth(nout.op, nin)

(***************************************************************************)
(* C15.  Cross-validation generator: while the file loop runs, generated + *)
(* skipped + failed equals the number of discovered .pdf files handled so  *)
(* far; handling a file adds exactly one to exactly one of the three       *)
(* counters and moves on by one file, so no file is handled twice; at the  *)
(* summary the sum is the number of discovered .pdf files.                 *)
(***************************************************************************)
CounterSum == count + skipped + failed

\* the files the loop has finished with
HandledSoFar == i - 1

C15_SumIsHandled ==
  script = "xval" =>
    /\ pc \in {"loop", "returned", "done", "crashed"} =>
         /\ CounterSum = HandledSoFar
         /\ HandledSoFar <= Len(pdf_files)
         /\ \A j, k \in 1..Len(pdf_files) : pdf_files[j] = pdf_files[k] => j = k
    /\ pc = "done" =>
         /\ HandledSoFar = Len(pdf_files)
         /\ CounterSum = Cardinality(Discovered)

C15_OneCounterPerFile ==
  (script = "xval" /\ pc \in {"loop", "returned"} /\ i' # i) =>
    /\ i' = i + 1 /\ pdf_files' = pdf_files
    /\ \/ count' = count + 1 /\ skipped' = skipped /\ failed' = failed
       \/ count' = count /\ skipped' = skipped + 1 /\ failed' = failed
       \/ count' = count /\ skipped' = skipped /\ failed' = failed + 1

C15_CountersAccountForFiles == []C15_SumIsHandled /\ [][C15_OneCounterPerFile]_vars

\* a run has generated one file, skipped one, failed one and reached its summary
C15_Witness ==
  /\ script = "xval" /\ pc = "done" /\ run = 1
  /\ count = 1 /\ skipped = 1 /\ failed = 1
  /\ Len(pdf_files) = 3

=============================================================================
